---- MODULE Spec2Model ----
(***************************************************************************)
(* Model of the two DSDL compilers of libuavcan:                           *)
(*   "cpp"      commons/dsdl_compiler/libuavcan_dsdl_compiler              *)
(*   "minimalc" libuavcan/dsdl_compiler/libuavcan_dsdl_compiler_minimalc   *)
(* Spec     is the generator pipeline run -> run_generator ->              *)
(*          generate_one_type -> write_generated_data over a filesystem.   *)
(* SpecCtx  is generate_one_type's context builder applied to a bounded    *)
(*          set of type descriptors.                                       *)
(* Strings are sequences of one-character strings, so that joining,        *)
(* splitting and ordering are computed and not assumed.                    *)
(***************************************************************************)
EXTENDS Integers, Sequences, FiniteSets, TLC

VARIABLES
    compiler,     \* which of the two packages runs
    dry_run,      \* run(..., dry_run) of the cpp package
    types,        \* what run_parser returned: sequence of type names
    template_ok,  \* whether the template file can be read and compiled
    render,       \* per type: the text generate_one_type returns, or "raise"
    files,        \* filesystem: path -> file
    dirs,         \* filesystem: set of existing directories
    pc,           \* position in run / run_generator
    i,            \* loop index of `for t in types`
    exc,          \* the exception run raised, "" when none
    entered,      \* run_generator was entered in this run
    expander,     \* the template expander of this run (0 = none)
    tmplLoads,    \* calls of make_template_expander in this run
    started,      \* this run: <<type, expander used>> per generate_one_type call
    written,      \* this run: types whose write_generated_data returned
    failedAt,     \* index of the type whose generation or write raised, 0 if none
    stdout,       \* this run: what was written to sys.stdout
    fsops,        \* this run: filesystem modifications <<operation, path>>
    last,         \* the last generation attempt (type, file before, outcome)
    runs,         \* number of runs started
    dt,           \* SpecCtx: the type descriptor given to generate_one_type
    ctx,          \* SpecCtx: the template parameters built from dt
    cpc,          \* SpecCtx: position
    rt,           \* SpecType: the type given to the type resolver
    at,           \* SpecType: the array layer the innermost call resolves
    wrapped,      \* SpecType: the recursion followed a cyclic element reference
    native,       \* SpecType: what the resolver returned or raised
    rpc,          \* SpecType: position
    arg,          \* SpecNames, SpecTmpl: the input of the function applied
    res,          \* SpecNames, SpecTmpl: its result
    fpc           \* SpecNames, SpecTmpl: position

pipeVars == <<compiler, dry_run, types, template_ok, render, files, dirs, pc, i,
              exc, entered, expander, tmplLoads, started, written, failedAt,
              stdout, fsops, last, runs>>
ctxVars == <<dt, ctx, cpc>>
typeVars == <<rt, at, wrapped, native, rpc>>
fnVars == <<arg, res, fpc>>
auxVars == <<ctxVars, typeVars, fnVars>>
vars == <<pipeVars, auxVars>>

(***************************************************************************)
(* Bounds                                                                  *)
(***************************************************************************)
MaxRuns == 3
MaxAttrs == 3
MaxServiceAttrs == 2
MaxDepth == 2
MaxComponents == 3
MaxIndent == 1
MaxPieces == 3
MaxItems == 3
MaxBlankLines == 8

(***************************************************************************)
(* Strings                                                                 *)
(***************************************************************************)
\* ASCII codes of the characters the model uses: the order of Python's str
CharCode ==
    [c \in {".", "/", "A", "B", "R", "_", "a", "b", "c", "e", "h", "n", "o",
            "p", "q", "s", "t", "u", "T"} |->
        CASE c = "." -> 46 [] c = "/" -> 47 [] c = "A" -> 65 [] c = "B" -> 66
          [] c = "R" -> 82 [] c = "_" -> 95 [] c = "a" -> 97 [] c = "b" -> 98
          [] c = "c" -> 99 [] c = "e" -> 101 [] c = "h" -> 104 [] c = "n" -> 110
          [] c = "o" -> 111 [] c = "p" -> 112 [] c = "q" -> 113 [] c = "s" -> 115
          [] c = "t" -> 116 [] c = "u" -> 117 [] c = "T" -> 84]

\* Python's a < b on str
RECURSIVE StrLess(_, _)
StrLess(a, b) ==
    IF b = <<>> THEN FALSE
    ELSE IF a = <<>> THEN TRUE
    ELSE IF CharCode[Head(a)] < CharCode[Head(b)] THEN TRUE
    ELSE IF CharCode[Head(a)] > CharCode[Head(b)] THEN FALSE
    ELSE StrLess(Tail(a), Tail(b))

\* sep.join(parts)
RECURSIVE StrJoin(_, _)
StrJoin(sep, parts) ==
    IF parts = <<>> THEN <<>>
    ELSE IF Len(parts) = 1 THEN parts[1]
    ELSE parts[1] \o sep \o StrJoin(sep, Tail(parts))

\* s.replace(old, new) for a one-character old
RECURSIVE StrReplace(_, _, _)
StrReplace(s, old, new) ==
    IF s = <<>> THEN <<>>
    ELSE (IF Head(s) = old THEN new ELSE <<Head(s)>>) \o StrReplace(Tail(s), old, new)

\* os.path.join(path, *components) for relative components
RECURSIVE os_path_join(_, _)
os_path_join(path, components) ==
    IF components = <<>> THEN path
    ELSE os_path_join(
            IF path = <<>> THEN components[1]
            ELSE IF path[Len(path)] = "/" THEN path \o components[1]
            ELSE path \o <<"/">> \o components[1],
            Tail(components))

\* os.path.dirname(path)
os_path_dirname(path) ==
    LET slashes == {k \in 1..Len(path) : path[k] = "/"}
    IN  IF slashes = {} THEN <<>>
        ELSE LET k == CHOOSE m \in slashes : \A n \in slashes : n <= m
             IN  IF k = 1 THEN <<"/">> ELSE SubSeq(path, 1, k - 1)

(***************************************************************************)
(* Type names and output paths                                             *)
(***************************************************************************)
\* t.full_name of a type with the given name components
full_name(name_components) == StrJoin(<<".">>, name_components)

OUTPUT_FILE_EXTENSION(c) == IF c = "cpp" THEN <<"h", "p", "p">> ELSE <<"c">>

\* cpp: type_output_filename(path, t); minimalc: os.path.join(path, type_output_filename(t))
type_output_filename(c, path, name_components) ==
    IF c = "cpp"
    THEN os_path_join(path, name_components) \o <<".">> \o OUTPUT_FILE_EXTENSION(c)
    ELSE os_path_join(path,
            << StrReplace(full_name(name_components), ".", <<"/">>)
               \o <<".">> \o OUTPUT_FILE_EXTENSION(c) >>)

(***************************************************************************)
(* Filesystem                                                              *)
(***************************************************************************)
OUTPUT_FILE_PERMISSIONS == "r--r--r--"
DefaultPermissions == "rw-r--r--"

NoFile == [exists |-> FALSE, data |-> "", mode |-> ""]
File(data, mode) == [exists |-> TRUE, data |-> data, mode |-> mode]

\* the chain of directories os.makedirs(path) creates
DirChain(path) ==
    {SubSeq(path, 1, k) : k \in {n \in 2..Len(path) : n = Len(path) \/ path[n + 1] = "/"}}

\* makedirs(path): the directories afterwards; "already exists" is no error;
\* when it fails, any leading part of the chain may have been created
makedirs(ds, path, fails) ==
    IF ~fails THEN {ds \cup DirChain(path)}
    ELSE {ds \cup {d \in DirChain(path) : Len(d) < n} : n \in 0..Len(path)}

\* the filesystem modifications makedirs made
MkdirOps(before, after) == {<<"mkdir", d>> : d \in after \ before}

(***************************************************************************)
(* write_generated_data                                                    *)
(***************************************************************************)
\* what a write that broke off part-way leaves in the file
Truncated == "truncated"

WriteResult(file, outcome, ops, raised) ==
    [file |-> file, outcome |-> outcome, ops |-> ops, raised |-> raised]

\* The file operations after makedirs(dirname): remove, open, write, chmod.
\* fault names the operation the operating system refuses ("none": nothing fails).
FullRewrite(old, data, fault) ==
    LET outcome == IF old.exists THEN "Rewriting" ELSE "Creating"
        rm == IF old.exists THEN {"remove"} ELSE {}
    IN  IF old.exists /\ fault = "remove" THEN WriteResult(old, outcome, {}, TRUE)
        ELSE IF fault = "open" THEN WriteResult(NoFile, outcome, rm, TRUE)
        ELSE IF fault = "write"
            THEN WriteResult(File(Truncated, DefaultPermissions), outcome,
                             rm \cup {"open", "write"}, TRUE)
        ELSE IF fault = "chmod"
            THEN WriteResult(File(data, DefaultPermissions), outcome,
                             rm \cup {"open", "write"}, FALSE)
        ELSE WriteResult(File(data, OUTPUT_FILE_PERMISSIONS), outcome,
                         rm \cup {"open", "write", "chmod"}, FALSE)

\* cpp: the existing file is removed and written again whatever it holds
write_generated_data_cpp(old, data, fault) ==
    IF fault = "makedirs" THEN WriteResult(old, "", {}, TRUE)
    ELSE FullRewrite(old, data, fault)

\* mutation of write_generated_data_minimalc: the lazy comparison is left out
write_generated_data_not_lazy(old, data, fault) ==
    write_generated_data_cpp(old, data, fault)

\* minimalc: lazy update, the file is read first and left alone when equal
write_generated_data_minimalc(old, data, fault) ==
    IF fault = "makedirs" THEN WriteResult(old, "", {}, TRUE)
    ELSE IF old.exists /\ fault = "read" THEN WriteResult(old, "", {}, TRUE)
    ELSE IF old.exists /\ data = old.data THEN WriteResult(old, "Up to date", {}, FALSE)
    ELSE FullRewrite(old, data, fault)

write_generated_data(c, old, data, fault) ==
    IF c = "cpp" THEN write_generated_data_cpp(old, data, fault)
    ELSE write_generated_data_minimalc(old, data, fault)

\* the operations that can fail in a call, given the file found
WriteFaults(c, old, data) ==
    {"none", "makedirs", "open", "write", "chmod"}
    \cup (IF old.exists THEN {"remove"} ELSE {})
    \cup (IF c = "minimalc" /\ old.exists THEN {"read"} ELSE {})

(***************************************************************************)
(* The pipeline: run, run_generator                                        *)
(***************************************************************************)
Compilers == {"cpp", "minimalc"}
Texts == {"X", "Y"}

\* name components of the types the parser can return
TypeA == << <<"n", "s">>, <<"A">> >>
TypeB == << <<"n", "s">>, <<"B">> >>
TypeSubA == << <<"n", "s">>, <<"s", "u", "b">>, <<"A">> >>
TypeNames == {TypeA, TypeB, TypeSubA}

\* os.path.abspath(dest_dir)
dest_dir == <<"/", "o", "u", "t">>

Paths == {type_output_filename(c, dest_dir, t) : c \in Compilers, t \in TypeNames}

Range(s) == {s[k] : k \in 1..Len(s)}

\* what run_parser can return: no two types of the same full name
TypeLists == {<<>>, <<TypeA>>, <<TypeB, TypeA>>, <<TypeA, TypeSubA>>}

\* per run: the text generate_one_type returns for each type, or "raise"
Renders(ts) ==
    {r \in [TypeNames -> Texts \cup {"raise"}] :
        \A t \in TypeNames \ Range(ts) : r[t] = "X"}

NoCall ==
    [called |-> FALSE, type |-> <<>>, filename |-> <<>>, data |-> "",
     before |-> NoFile, outcome |-> "", ops |-> {}, raised |-> FALSE, fault |-> ""]

InitPipe ==
    /\ compiler \in Compilers
    /\ dry_run \in (IF compiler = "cpp" THEN BOOLEAN ELSE {FALSE})
    /\ types \in TypeLists
    /\ template_ok \in BOOLEAN
    /\ render \in Renders(types)
    /\ files = [p \in Paths |-> NoFile]
    /\ dirs = {}
    /\ pc = "run"
    /\ i = 0
    /\ exc = ""
    /\ entered = FALSE
    /\ expander = 0
    /\ tmplLoads = 0
    /\ started = <<>>
    /\ written = <<>>
    /\ failedAt = 0
    /\ stdout = <<>>
    /\ fsops = {}
    /\ last = NoCall
    /\ runs = 1

\* die(text)
die == "DsdlCompilerException"

\* mutation of NoTypes: the check for an empty type list is left out
NoTypesUnchecked(ts) == FALSE

\* run: `if len(types) == 0` (cpp), `if not types` (minimalc)
NoTypes(ts) == Len(ts) = 0

\* run, up to the call of run_generator
Run ==
    /\ pc = "run"
    /\ IF NoTypes(types)
       THEN pc' = "failed" /\ exc' = die /\ entered' = FALSE
       ELSE pc' = "generator" /\ exc' = "" /\ entered' = TRUE
    /\ UNCHANGED <<compiler, dry_run, types, template_ok, render, files, dirs, i,
                   expander, tmplLoads, started, written, failedAt, stdout,
                   fsops, last, runs, auxVars>>

\* mutation of WritesOutput: dry_run is ignored
WritesOutputAlways(dry) == TRUE

\* run_generator: `if not dry_run` guards the template and makedirs(dest_dir)
WritesOutput(dry) == ~dry

\* run_generator before the loop: make_template_expander, then makedirs(dest_dir)
Setup ==
    /\ pc = "generator"
    /\ i' = 1
    /\ IF ~WritesOutput(dry_run)
       THEN /\ expander' = 0
            /\ pc' = "loop"
            /\ UNCHANGED <<tmplLoads, dirs, fsops, exc>>
       ELSE /\ tmplLoads' = tmplLoads + 1
            /\ IF ~template_ok
               THEN /\ pc' = "failed"
                    /\ exc' = die
                    /\ UNCHANGED <<expander, dirs, fsops>>
               ELSE /\ expander' = tmplLoads + 1
                    /\ \E fails \in BOOLEAN :
                       \E ds \in makedirs(dirs, dest_dir, fails) :
                          /\ dirs' = ds
                          /\ fsops' = fsops \cup MkdirOps(dirs, ds)
                          /\ pc' = IF fails THEN "failed" ELSE "loop"
                          /\ exc' = IF fails THEN die ELSE ""
    /\ UNCHANGED <<compiler, dry_run, types, template_ok, render, files, entered,
                   started, written, failedAt, stdout, last, runs, auxVars>>

\* mutation of LoopExpander: the template is compiled again for every type
LoopExpanderReloading(exp, loads) == [expander |-> loads + 1, loads |-> loads + 1]

\* the loop passes the expander made before it to generate_one_type
LoopExpander(exp, loads) == [expander |-> exp, loads |-> loads]

\* mutation of AfterType: a failing type is skipped and the loop goes on
AfterTypeContinue(raised, k) ==
    [pc |-> "loop", exc |-> "", i |-> k + 1, failedAt |-> IF raised THEN k ELSE 0]

\* `except Exception as ex: die(ex)` around the loop: the first failure ends it
AfterType(raised, k) ==
    [pc |-> IF raised THEN "failed" ELSE "loop",
     exc |-> IF raised THEN die ELSE "",
     i |-> IF raised THEN k ELSE k + 1,
     failedAt |-> IF raised THEN k ELSE 0]

FileOps(filename, ops) == {<<o, filename>> : o \in ops}

\* one iteration of `for t in types` when not dry_run:
\* generate_one_type, then write_generated_data
GenerateType ==
    /\ pc = "loop"
    /\ i <= Len(types)
    /\ WritesOutput(dry_run)
    /\ LET t == types[i]
           filename == type_output_filename(compiler, dest_dir, t)
           old == files[filename]
           le == LoopExpander(expander, tmplLoads)
       IN  /\ expander' = le.expander
           /\ tmplLoads' = le.loads
           /\ started' = Append(started, <<t, le.expander>>)
           /\ IF render[t] = "raise"
              THEN /\ last' = [called |-> FALSE, type |-> t, filename |-> filename,
                               data |-> "", before |-> old, outcome |-> "",
                               ops |-> {}, raised |-> TRUE, fault |-> "generate"]
                   /\ pc' = AfterType(TRUE, i).pc
                   /\ exc' = AfterType(TRUE, i).exc
                   /\ i' = AfterType(TRUE, i).i
                   /\ failedAt' = AfterType(TRUE, i).failedAt
                   /\ UNCHANGED <<files, dirs, fsops, written>>
              ELSE \E fault \in WriteFaults(compiler, old, render[t]) :
                   \E ds \in makedirs(dirs, os_path_dirname(filename), fault = "makedirs") :
                      LET w == write_generated_data(compiler, old, render[t], fault)
                          nx == AfterType(w.raised, i)
                      IN  /\ dirs' = ds
                          /\ files' = [files EXCEPT ![filename] = w.file]
                          /\ fsops' = fsops \cup MkdirOps(dirs, ds) \cup FileOps(filename, w.ops)
                          /\ last' = [called |-> TRUE, type |-> t, filename |-> filename,
                                      data |-> render[t], before |-> old,
                                      outcome |-> w.outcome, ops |-> w.ops,
                                      raised |-> w.raised,
                                      fault |-> IF w.raised THEN fault ELSE ""]
                          /\ written' = IF w.raised THEN written ELSE Append(written, t)
                          /\ pc' = nx.pc
                          /\ exc' = nx.exc
                          /\ i' = nx.i
                          /\ failedAt' = nx.failedAt
    /\ UNCHANGED <<compiler, dry_run, types, template_ok, render, entered, stdout,
                   runs, auxVars>>

\* one iteration of `for t in types` when dry_run: the file name goes to stdout
DryReport ==
    /\ pc = "loop"
    /\ i <= Len(types)
    /\ ~WritesOutput(dry_run)
    /\ stdout' = Append(stdout, type_output_filename(compiler, dest_dir, types[i]))
    /\ i' = i + 1
    /\ UNCHANGED <<compiler, dry_run, types, template_ok, render, files, dirs, pc,
                   exc, entered, expander, tmplLoads, started, written, failedAt,
                   fsops, last, runs, auxVars>>

\* the loop is exhausted: run_generator and run return
Finish ==
    /\ pc = "loop"
    /\ i > Len(types)
    /\ pc' = "done"
    /\ UNCHANGED <<compiler, dry_run, types, template_ok, render, files, dirs, i,
                   exc, entered, expander, tmplLoads, started, written, failedAt,
                   stdout, fsops, last, runs, auxVars>>

\* the compiler is run again on the same output directory; the definitions and
\* the template may have been edited in between
Rerun ==
    /\ pc \in {"done", "failed"}
    /\ runs < MaxRuns
    /\ runs' = runs + 1
    /\ dry_run' \in (IF compiler = "cpp" THEN BOOLEAN ELSE {FALSE})
    /\ template_ok' \in BOOLEAN
    /\ render' \in Renders(types)
    /\ pc' = "run"
    /\ i' = 0
    /\ exc' = ""
    /\ entered' = FALSE
    /\ expander' = 0
    /\ tmplLoads' = 0
    /\ started' = <<>>
    /\ written' = <<>>
    /\ failedAt' = 0
    /\ stdout' = <<>>
    /\ fsops' = {}
    /\ last' = NoCall
    /\ UNCHANGED <<compiler, types, files, dirs, auxVars>>

CtxIdle == dt = <<>> /\ ctx = <<>> /\ cpc = "idle"
TypeIdle == rt = <<>> /\ at = 0 /\ wrapped = FALSE /\ native = <<>> /\ rpc = "idle"
FnIdle == arg = <<>> /\ res = <<>> /\ fpc = "idle"

Init == InitPipe /\ CtxIdle /\ TypeIdle /\ FnIdle

Next == Run \/ Setup \/ GenerateType \/ DryReport \/ Finish \/ Rerun

Spec == Init /\ [][Next]_vars

(***************************************************************************)
(* Claims about the pipeline (checked under Spec)                          *)
(***************************************************************************)
FileNameOf(t) == type_output_filename(compiler, dest_dir, t)
CurrentFile == files[last.filename]

\* C1: in the cpp compiler, a write_generated_data call that finds a file whose
\* content equals the data reports "Up to date" and leaves the file untouched
\* (no remove, no open for writing, no chmod).
C1_CppLazyWrite ==
    (compiler = "cpp" /\ last.called /\ ~last.raised
        /\ last.before.exists /\ last.before.data = last.data)
    => /\ last.outcome = "Up to date"
       /\ last.ops = {}
       /\ CurrentFile = last.before

\* C2: in the minimal-C compiler every successful write_generated_data call
\* reports Creating iff no file existed, Up to date iff a file with equal content
\* existed (and then did nothing to the file), Rewriting otherwise; afterwards
\* the file holds the data of the call, also when the file found was read-only.
C2_MinimalcWriteOutcome ==
    (compiler = "minimalc" /\ last.called /\ ~last.raised)
    => /\ last.outcome = "Creating" <=> ~last.before.exists
       /\ last.outcome = "Up to date"
            <=> (last.before.exists /\ last.before.data = last.data)
       /\ last.outcome = "Rewriting"
            <=> (last.before.exists /\ last.before.data # last.data)
       /\ last.outcome = "Up to date" => (last.ops = {} /\ CurrentFile = last.before)
       /\ CurrentFile.exists
       /\ CurrentFile.data = last.data

\* C2 witness: a read-only file of other content was rewritten
C2_Witness ==
    /\ compiler = "minimalc" /\ last.called /\ ~last.raised
    /\ last.before.exists
    /\ last.before.mode = OUTPUT_FILE_PERMISSIONS
    /\ last.before.data = "X" /\ last.data = "Y"
    /\ last.outcome = "Rewriting"
    /\ CurrentFile.data = "Y"

\* C3: after a failed generation or write of a type, its output path holds
\* either exactly what it held before the attempt or the complete new text.
C3_AtomicGeneration ==
    last.raised
    => \/ CurrentFile = last.before
       \/ (last.called /\ CurrentFile.exists /\ CurrentFile.data = last.data)

\* C4: types are generated and written one at a time in the order supplied; when
\* type i fails the run aborts with DsdlCompilerException, the files of the
\* types before i hold their generated text and no later type is generated or
\* written.
C4_InOrderAbort ==
    /\ Len(started) <= Len(types)
    /\ \A k \in 1..Len(started) : started[k][1] = types[k]
    /\ Len(written) <= Len(started)
    /\ Len(started) <= Len(written) + 1
    /\ \A k \in 1..Len(written) : written[k] = types[k]
    /\ (Len(started) > Len(written)) => failedAt = Len(started)
    /\ failedAt > 0 =>
        /\ pc = "failed"
        /\ exc = "DsdlCompilerException"
        /\ Len(started) = failedAt
        /\ Len(written) = failedAt - 1
        /\ \A k \in 1..(failedAt - 1) :
              /\ files[FileNameOf(types[k])].exists
              /\ files[FileNameOf(types[k])].data = render[types[k]]
        /\ \A k \in (failedAt + 1)..Len(types) :
              \A op \in fsops : op[2] # FileNameOf(types[k])

\* C4 witness: the second of two types failed after the first was written
C4_Witness ==
    /\ Len(types) = 2
    /\ failedAt = 2
    /\ pc = "failed"
    /\ written = <<types[1]>>
    /\ <<"write", FileNameOf(types[1])>> \in fsops

\* C5: in a dry run nothing is written to the filesystem (no directory, no
\* template load, no file created, removed or chmod-ed) and the output path of
\* every type is reported exactly once, in input order.
C5_DryRunWritesNothing ==
    (dry_run /\ entered)
    => /\ fsops = {}
       /\ tmplLoads = 0
       /\ started = <<>>
       /\ written = <<>>
       /\ ~last.called
       /\ pc \in {"generator", "loop", "done"}
       /\ pc = "done" => Len(stdout) = Len(types)
       /\ pc = "loop" => Len(stdout) = i - 1
       /\ Len(stdout) <= Len(types)
       /\ \A k \in 1..Len(stdout) : stdout[k] = FileNameOf(types[k])

\* C5 witness: a dry run over an output directory that holds files, finished
C5_Witness ==
    /\ dry_run /\ pc = "done"
    /\ Len(types) = 2
    /\ Len(stdout) = 2
    /\ \E p \in Paths : files[p].exists

\* C6: with zero types run fails with DsdlCompilerException before
\* run_generator is entered: no template compiled, no directory, no file.
C6_ZeroTypes ==
    Len(types) = 0
    => /\ pc \in {"run", "failed"}
       /\ pc = "failed" => exc = "DsdlCompilerException"
       /\ ~entered
       /\ tmplLoads = 0
       /\ fsops = {}
       /\ dirs = {}
       /\ \A p \in Paths : ~files[p].exists

\* C6 witness: a run over zero types has failed
C6_Witness ==
    Len(types) = 0 /\ pc = "failed" /\ exc = "DsdlCompilerException" /\ runs = MaxRuns

\* C7: in a non-dry run the template is compiled exactly once, before the first
\* type is generated and before anything is written, the one expander serves
\* every type, and a template compile failure aborts the run with nothing
\* written.
C7_TemplateOnce ==
    /\ tmplLoads <= 1
    /\ started # <<>> => tmplLoads = 1
    /\ \A k \in 1..Len(started) : started[k][2] = 1
    /\ fsops # {} => tmplLoads = 1
    /\ (~dry_run /\ pc \in {"loop", "done"}) => (tmplLoads = 1 /\ expander = 1)
    /\ (~dry_run /\ entered /\ ~template_ok /\ pc # "generator")
        => /\ pc = "failed"
           /\ exc = "DsdlCompilerException"
           /\ tmplLoads = 1
           /\ fsops = {}
           /\ started = <<>>
           /\ written = <<>>

\* C7 witness: two types were generated in one run with the one expander
C7_Witness ==
    /\ ~dry_run /\ pc = "done"
    /\ Len(started) = 2
    /\ tmplLoads = 1
    /\ Cardinality({op \in fsops : op[1] = "write"}) = 2

(***************************************************************************)
(* Type descriptors (what the parser hands to generate_one_type)           *)
(***************************************************************************)
Primitive(kind, bit_length, cast_mode) ==
    [tag |-> "primitive", kind |-> kind, bit_length |-> bit_length,
     cast_mode |-> cast_mode]
VoidType(bit_length) == [tag |-> "void", bit_length |-> bit_length]
ArrayType(mode, element_type, size) ==
    [tag |-> "array", mode |-> mode, element_type |-> element_type, size |-> size]
CompoundRef(name_components) == [tag |-> "compound", name_components |-> name_components]

\* the data types of the fields of the model's definitions
FieldTypes ==
    { Primitive("uint", 8, "saturated"),
      VoidType(3),
      CompoundRef(TypeB),
      CompoundRef(TypeA),
      ArrayType("dynamic", CompoundRef(TypeA), 2),
      ArrayType("static", ArrayType("dynamic", CompoundRef(TypeSubA), 2), 2) }

\* the constants of the model's definitions: data type and literal text
ConstantDecls ==
    { [attr |-> "constant", data_type |-> Primitive("uint", 8, "saturated"),
       string_value |-> <<"4", "2">>],
      [attr |-> "constant", data_type |-> Primitive("int", 8, "saturated"),
       string_value |-> <<"-", "1">>],
      [attr |-> "constant", data_type |-> Primitive("float", 16, "saturated"),
       string_value |-> <<"1", ".", "5">>],
      \* a float literal given for an integer, an expression given for a float
      [attr |-> "constant", data_type |-> Primitive("uint", 8, "saturated"),
       string_value |-> <<"1", ".", "5">>],
      [attr |-> "constant", data_type |-> Primitive("float", 16, "saturated"),
       string_value |-> <<"1", "/", "2">>] }

\* one attribute line of a definition: a field or a constant
AttrDecls ==
    {[attr |-> "field", data_type |-> ft, string_value |-> <<>>] : ft \in FieldTypes}
    \cup ConstantDecls

\* the name the parser gives the k-th attribute line: unique, non-empty;
\* a void (padding) field has no name
AttrName(decl, k) ==
    IF decl.data_type.tag = "void" THEN <<>> ELSE [j \in 1..k |-> "a"]

Attribute(decl, k) ==
    [name |-> AttrName(decl, k), data_type |-> decl.data_type,
     string_value |-> decl.string_value]

RECURSIVE SelectAttrs(_, _, _, _)
\* the attributes of kind `attr` among lines from..to of decls, in order
SelectAttrs(decls, attr, from, to) ==
    IF from > to THEN <<>>
    ELSE (IF decls[from].attr = attr THEN <<Attribute(decls[from], from)>> ELSE <<>>)
         \o SelectAttrs(decls, attr, from + 1, to)

\* the name of the type under generation
TypeT == << <<"n", "s">>, <<"T">> >>

\* A message definition of the given attribute lines; a service definition
\* whose first `split` lines are the request and the others the response.
TypeDescriptor(kind, union, decls, split) ==
    [name_components |-> TypeT, kind |-> kind, union |-> union,
     fields |-> IF kind = "message"
                THEN SelectAttrs(decls, "field", 1, Len(decls)) ELSE <<>>,
     constants |-> IF kind = "message"
                   THEN SelectAttrs(decls, "constant", 1, Len(decls)) ELSE <<>>,
     request_fields |-> IF kind = "service"
                        THEN SelectAttrs(decls, "field", 1, split) ELSE <<>>,
     request_constants |-> IF kind = "service"
                           THEN SelectAttrs(decls, "constant", 1, split) ELSE <<>>,
     response_fields |-> IF kind = "service"
                         THEN SelectAttrs(decls, "field", split + 1, Len(decls)) ELSE <<>>,
     response_constants |-> IF kind = "service"
                            THEN SelectAttrs(decls, "constant", split + 1, Len(decls))
                            ELSE <<>>]

DeclLists == UNION {[1..n -> AttrDecls] : n \in 0..MaxAttrs}

\* the definitions of the model: dt is a descriptor iff IsDescriptor(dt, ..)
IsDescriptor(t, kind, union, decls, split) ==
    /\ kind \in {"message", "service"}
    /\ kind = "service" => Len(decls) <= MaxServiceAttrs
    /\ union \in BOOLEAN
    /\ kind = "service" => ~union
    /\ split \in 0..Len(decls)
    /\ kind = "message" => split = 0
    /\ t = TypeDescriptor(kind, union, decls, split)

(***************************************************************************)
(* Type mapping: type_to_cpp_type (cpp), type_to_c_type (minimalc)         *)
(***************************************************************************)
Ok(v) == [raised |-> FALSE, value |-> v, error |-> ""]
Raise(e) == [raised |-> TRUE, value |-> <<>>, error |-> e]

\* '::' + t.full_name.replace('.', '::')
ScopedName(name_components) ==
    <<":", ":">> \o StrReplace(full_name(name_components), ".", <<":", ":">>)

RECURSIVE type_to_cpp_type(_)
\* the format strings' results are kept as records of their arguments
type_to_cpp_type(t) ==
    IF t.tag = "primitive" THEN
        IF t.cast_mode \notin {"saturated", "truncated"} THEN Raise("KeyError")
        ELSE LET cast_mode == IF t.cast_mode = "saturated"
                              THEN "::uavcan::CastModeSaturate"
                              ELSE "::uavcan::CastModeTruncate"
             IN  IF t.kind = "float"
                 THEN Ok([spec |-> "::uavcan::FloatSpec", bit_length |-> t.bit_length,
                          cast_mode |-> cast_mode])
                 ELSE IF t.kind \in {"bool", "uint"}
                 THEN Ok([spec |-> "::uavcan::IntegerSpec", bit_length |-> t.bit_length,
                          signedness |-> "::uavcan::SignednessUnsigned",
                          cast_mode |-> cast_mode])
                 ELSE IF t.kind = "int"
                 THEN Ok([spec |-> "::uavcan::IntegerSpec", bit_length |-> t.bit_length,
                          signedness |-> "::uavcan::SignednessSigned",
                          cast_mode |-> cast_mode])
                 ELSE Raise("DsdlCompilerException")
    ELSE IF t.tag = "array" THEN
        LET value_type == type_to_cpp_type(t.element_type)
        IN  IF value_type.raised THEN value_type
            ELSE IF t.mode = "static"
            THEN Ok([spec |-> "::uavcan::Array", value_type |-> value_type.value,
                     mode |-> "::uavcan::ArrayModeStatic", size |-> t.size])
            ELSE IF t.mode = "dynamic"
            THEN Ok([spec |-> "::uavcan::Array", value_type |-> value_type.value,
                     mode |-> "::uavcan::ArrayModeDynamic", size |-> t.size])
            ELSE Raise("DsdlCompilerException")
    ELSE IF t.tag = "compound" THEN
        Ok([spec |-> "name", name |-> ScopedName(t.name_components)])
    ELSE IF t.tag = "void" THEN
        Ok([spec |-> "::uavcan::IntegerSpec", bit_length |-> t.bit_length,
            signedness |-> "::uavcan::SignednessUnsigned",
            cast_mode |-> "::uavcan::CastModeSaturate"])
    ELSE Raise("DsdlCompilerException")

RECURSIVE type_to_c_type(_, _, _)
\* the value is the returned text (as a record); bit_struct is what the call
\* stores in the array type
type_to_c_type(t, aname, fname) ==
    IF t.tag = "primitive" THEN
        IF t.kind = "float" THEN Ok([text |-> "float "])
        ELSE IF t.kind \in {"bool", "uint"} THEN Ok([text |-> "unsigned int"])
        ELSE IF t.kind = "int" THEN Ok([text |-> "signed int"])
        ELSE Raise("KeyError")
    ELSE IF t.tag = "array" THEN
        LET value_type == type_to_c_type(t.element_type, aname, fname)
        IN  IF value_type.raised THEN value_type
            \* `t.value_type.kind` of an element that is itself an array
            ELSE IF t.element_type.tag \notin {"compound", "primitive"}
            THEN Raise("AttributeError")
            ELSE Ok([text |-> "struct[]", fname |-> fname, aname |-> aname,
                     size |-> t.size,
                     bit_struct |-> IF t.element_type.tag = "compound"
                                    THEN [text |-> "Compound types not supported"]
                                    ELSE value_type.value])
    ELSE IF t.tag = "compound" THEN
        Ok([text |-> "name", name |-> ScopedName(t.name_components)])
    ELSE Raise("DsdlCompilerException")

(***************************************************************************)
(* generate_one_type: the include list                                     *)
(***************************************************************************)
\* Python's None, and the empty string: both are dropped by filter(None, ..)
None == <<>>

RECURSIVE detect_include(_, _)
detect_include(c, t) ==
    IF t.tag = "compound" THEN type_output_filename(c, <<>>, t.name_components)
    ELSE IF t.tag = "array" THEN detect_include(c, t.element_type)
    ELSE None

\* filter(None, xs)
FilterNone(xs) == SelectSeq(xs, LAMBDA x : x # None)

RECURSIVE sorted(_)
\* list(sorted(S)) of a set of strings
sorted(S) ==
    IF S = {} THEN <<>>
    ELSE LET m == CHOOSE x \in S : \A y \in S \ {x} : StrLess(x, y)
         IN  <<m>> \o sorted(S \ {m})

\* mutation of fields_includes: set() and sorted() are left out
fields_includes_as_declared(c, fields) ==
    FilterNone([k \in 1..Len(fields) |-> detect_include(c, fields[k].data_type)])

\* list(sorted(set(filter(None, [detect_include(x.data_type) for x in fields]))))
fields_includes(c, fields) ==
    sorted(Range(FilterNone(
        [k \in 1..Len(fields) |-> detect_include(c, fields[k].data_type)])))

(***************************************************************************)
(* generate_one_type of the cpp package                                    *)
(***************************************************************************)
RequestName == <<"R", "e", "q", "u", "e", "s", "t">>
ResponseName == <<"R", "e", "s", "p", "o", "n", "s", "e">>

\* in_datatype.fields: a service type is a container of the two fields
\* `request` and `response`, whose data types are the nested compound types
in_datatype_fields(t) ==
    IF t.kind = "service"
    THEN << [name |-> <<"r", "e", "q", "u", "e", "s", "t">>,
             data_type |-> CompoundRef(Append(t.name_components, RequestName)),
             string_value |-> <<>>],
            [name |-> <<"r", "e", "s", "p", "o", "n", "s", "e">>,
             data_type |-> CompoundRef(Append(t.name_components, ResponseName)),
             string_value |-> <<>>] >>
    ELSE t.fields

\* in_datatype.constants: the service container has none of its own
in_datatype_constants(t) == IF t.kind = "service" THEN <<>> ELSE t.constants

\* `out_attributes += out_a` at the point where out_a is still the empty dict:
\* a list is extended by the keys of the dict, of which there are none
ListIAddEmptyDict(out_attributes) == out_attributes \o <<>>

DecimalDigits == <<"0", "1", "2", "3", "4", "5", "6", "7", "8", "9">>

RECURSIVE FormatD(_)
\* '%d' % n of a natural number
FormatD(n) ==
    IF n < 10 THEN <<DecimalDigits[n + 1]>>
    ELSE FormatD(n \div 10) \o <<DecimalDigits[(n % 10) + 1]>>

\* '_void_%d' % void_index
VoidName(void_index) == <<"_", "v", "o", "i", "d", "_">> \o FormatD(void_index)

\* isinstance(a, VoidType) of the attribute a (a field or a constant, which
\* has a data_type): only a data type carries a type tag
isinstance_VoidType(a) == "tag" \in DOMAIN a /\ a.tag = "void"

\* the dict out_a of one iteration, as filled after the +=
out_a(a, cpp_type, void_index) ==
    [cpp_type |-> cpp_type, void |-> isinstance_VoidType(a),
     name |-> IF isinstance_VoidType(a) THEN VoidName(void_index) ELSE a.name]

RECURSIVE inject_cpp_types_from(_, _, _, _)
\* the loop of inject_cpp_types from index k on; out_a receives cpp_type, void
\* and name after the +=, so that nothing of it reaches out_attributes
inject_cpp_types_from(attributes, k, void_index, out_attributes) ==
    IF k > Len(attributes) THEN Ok(out_attributes)
    ELSE LET cpp_type == type_to_cpp_type(attributes[k].data_type)
             extended == ListIAddEmptyDict(out_attributes)
         IN  IF cpp_type.raised THEN cpp_type
             ELSE LET filled == out_a(attributes[k], cpp_type.value, void_index)
                  IN  \* assert not a["name"]: an attribute is not subscriptable
                      IF filled.void THEN Raise("TypeError")
                      ELSE inject_cpp_types_from(attributes, k + 1, void_index,
                                                 extended)

inject_cpp_types(attributes) == inject_cpp_types_from(attributes, 1, 0, <<>>)

\* inject_constant_info(template_params.constants, ..): the loop runs over the
\* dicts of the list built by inject_cpp_types; a dict has no string_value
inject_constant_info_cpp(constants) ==
    IF constants = <<>> THEN Ok(<<>>) ELSE Raise("AttributeError")

NotBuilt == [built |-> FALSE, raised |-> FALSE]
Failed(e) == [built |-> TRUE, raised |-> TRUE, error |-> e]

\* (i for i in template_params.fields if i.name == name), as the list of what
\* the generator yields
FieldsNamed(fields, name) == SelectSeq(fields, LAMBDA f : f.name = name)

\* isinstance(in_datatype, UnionType) and len(x): the flag's truth value;
\* len() of a generator is a TypeError, reached only when the first operand
\* is true
UnionAndLen(t, is_generator, n) ==
    IF ~t.union THEN Ok(FALSE)
    ELSE IF is_generator THEN Raise("TypeError")
    ELSE Ok(n # 0)

\* the template parameters generate_one_type passes to the expander; `objects`
\* names the list object each constants entry refers to
generate_one_type_cpp(t) ==
    LET cpp_includes == fields_includes("cpp", in_datatype_fields(t))
        fields == inject_cpp_types(in_datatype_fields(t))
        constants == inject_cpp_types(in_datatype_constants(t))
    IN  IF fields.raised THEN Failed(fields.error)
        ELSE IF constants.raised THEN Failed(constants.error)
        ELSE LET request_fields ==
                     FieldsNamed(fields.value, <<"r", "e", "q", "u", "e", "s", "t">>)
                 response_fields ==
                     FieldsNamed(fields.value, <<"r", "e", "s", "p", "o", "n", "s", "e">>)
                 union == UnionAndLen(t, FALSE, Len(fields.value))
                 request_union == UnionAndLen(t, TRUE, 0)
                 response_union == UnionAndLen(t, TRUE, 0)
                 info == inject_constant_info_cpp(constants.value)
             IN  IF t.kind = "service" /\ request_union.raised
                 THEN Failed(request_union.error)
                 ELSE IF info.raised THEN Failed(info.error)
                 ELSE [built |-> TRUE, raised |-> FALSE,
                       full_name |-> full_name(t.name_components),
                       short_name |-> t.name_components[Len(t.name_components)],
                       is_service |-> t.kind = "service",
                       includes |-> cpp_includes,
                       fields |-> fields.value,
                       constants |-> info.value,
                       request_fields |-> request_fields,
                       response_fields |-> response_fields,
                       all_attributes |-> fields.value \o constants.value,
                       union |-> t.kind # "service" /\ union.value,
                       request_union |-> t.kind = "service" /\ request_union.value,
                       response_union |-> t.kind = "service" /\ response_union.value,
                       request_constants |-> info.value,
                       response_constants |-> info.value,
                       objects |-> [constants |-> "out_constants",
                                    request_constants |-> "out_constants",
                                    response_constants |-> "out_constants"]]

(***************************************************************************)
(* generate_one_type of the minimalc package                               *)
(***************************************************************************)
Digits == {"0", "1", "2", "3", "4", "5", "6", "7", "8", "9"}
Unsigned(s) == IF s # <<>> /\ Head(s) \in {"+", "-"} THEN Tail(s) ELSE s

\* int(s) does not raise (decimal digits with an optional sign)
IsIntLiteral(s) ==
    LET u == Unsigned(s) IN u # <<>> /\ \A k \in 1..Len(u) : u[k] \in Digits

\* float(s) does not raise (digits with an optional sign and at most one point)
IsFloatLiteral(s) ==
    LET u == Unsigned(s)
    IN  /\ \E k \in 1..Len(u) : u[k] \in Digits
        /\ \A k \in 1..Len(u) : u[k] \in Digits \cup {"."}
        /\ Cardinality({k \in 1..Len(u) : u[k] = "."}) <= 1

RECURSIVE inject_c_types_from(_, _, _)
\* inject_c_types: a.c_type = type_to_c_type(a.type, a.name, t.c_function_name)
inject_c_types_from(attributes, k, fname) ==
    IF k > Len(attributes) THEN Ok(<<>>)
    ELSE LET a == attributes[k]
             c_type == type_to_c_type(a.data_type, a.name, fname)
         IN  IF c_type.raised THEN c_type
             ELSE LET rest == inject_c_types_from(attributes, k + 1, fname)
                  IN  IF rest.raised THEN rest
                      ELSE Ok(<<[name |-> a.name, data_type |-> a.data_type,
                                 string_value |-> a.string_value,
                                 c_type |-> c_type.value]>> \o rest.value)

inject_c_types(attributes, fname) == inject_c_types_from(attributes, 1, fname)

RECURSIVE inject_constant_info_from(_, _)
\* inject_constant_info: the literal is validated and c.c_value set
inject_constant_info_from(constants, k) ==
    IF k > Len(constants) THEN Ok(<<>>)
    ELSE LET c == constants[k]
             valid == IF c.data_type.kind = "float"
                      THEN IsFloatLiteral(c.string_value)
                      ELSE IsIntLiteral(c.string_value)
             c_value == IF c.data_type.kind = "uint"
                        THEN c.string_value \o <<"U">> ELSE c.string_value
         IN  IF ~valid THEN Raise("ValueError")
             ELSE LET rest == inject_constant_info_from(constants, k + 1)
                  IN  IF rest.raised THEN rest
                      ELSE Ok(<<[name |-> c.name, data_type |-> c.data_type,
                                 string_value |-> c.string_value,
                                 c_type |-> c.c_type, c_value |-> c_value]>>
                              \o rest.value)

inject_constant_info(constants) == inject_constant_info_from(constants, 1)

\* the attributes generate_one_type sets on t before it calls the expander;
\* what was set before an exception stays set on t
generate_one_type_minimalc(t) ==
    LET c_function_name == StrReplace(full_name(t.name_components), ".", <<"_">>)
        c_includes == IF t.kind = "message"
                      THEN fields_includes("minimalc", t.fields)
                      ELSE fields_includes("minimalc",
                                           t.request_fields \o t.response_fields)
        partial(e) == [built |-> TRUE, raised |-> TRUE, error |-> e,
                       includes |-> c_includes]
        f == inject_c_types(t.fields, c_function_name)
        c == inject_c_types(t.constants, c_function_name)
        qf == inject_c_types(t.request_fields, c_function_name)
        qc == inject_c_types(t.request_constants, c_function_name)
        pf == inject_c_types(t.response_fields, c_function_name)
        pc_ == inject_c_types(t.response_constants, c_function_name)
        first == IF f.raised THEN f ELSE IF c.raised THEN c
                 ELSE IF qf.raised THEN qf ELSE IF qc.raised THEN qc
                 ELSE IF pf.raised THEN pf ELSE pc_
    IN  IF first.raised THEN partial(first.error)
        ELSE LET ci == inject_constant_info(c.value)
                 qci == inject_constant_info(qc.value)
                 pci == inject_constant_info(pc_.value)
                 bad == IF ci.raised THEN ci ELSE IF qci.raised THEN qci ELSE pci
             IN  IF bad.raised THEN partial(bad.error)
                 ELSE [built |-> TRUE, raised |-> FALSE,
                       full_name |-> full_name(t.name_components),
                       short_name |-> t.name_components[Len(t.name_components)],
                       is_service |-> t.kind = "service",
                       includes |-> c_includes,
                       fields |-> f.value,
                       constants |-> ci.value,
                       request_fields |-> qf.value,
                       request_constants |-> qci.value,
                       response_fields |-> pf.value,
                       response_constants |-> pci.value,
                       all_attributes |->
                           IF t.kind = "message" THEN f.value \o c.value
                           ELSE qf.value \o qc.value \o pf.value \o pc_.value,
                       objects |-> [constants |-> "t.constants",
                                    request_constants |-> "t.request_constants",
                                    response_constants |-> "t.response_constants"]]

generate_one_type(c, t) ==
    IF c = "cpp" THEN generate_one_type_cpp(t) ELSE generate_one_type_minimalc(t)

(***************************************************************************)
(* SpecCtx: generate_one_type applied to the bounded descriptors           *)
(***************************************************************************)
PipeIdle ==
    /\ dry_run = FALSE /\ types = <<>> /\ template_ok = TRUE
    /\ render = [t \in TypeNames |-> "X"]
    /\ files = [p \in Paths |-> NoFile] /\ dirs = {}
    /\ pc = "idle" /\ i = 0 /\ exc = "" /\ entered = FALSE
    /\ expander = 0 /\ tmplLoads = 0 /\ started = <<>> /\ written = <<>>
    /\ failedAt = 0 /\ stdout = <<>> /\ fsops = {} /\ last = NoCall /\ runs = 0

InitCtx ==
    /\ PipeIdle /\ TypeIdle /\ FnIdle
    /\ compiler \in Compilers
    /\ \E kind \in {"message", "service"}, union \in BOOLEAN,
          decls \in DeclLists, split \in 0..MaxServiceAttrs :
          IsDescriptor(dt, kind, union, decls, split)
    /\ ctx = NotBuilt
    /\ cpc = "ready"

\* generate_one_type(template_expander, t) up to the call of the expander
GenerateOneType ==
    /\ cpc = "ready"
    /\ ctx' = generate_one_type(compiler, dt)
    /\ cpc' = "done"
    /\ UNCHANGED <<pipeVars, dt, typeVars, fnVars>>

NextCtx == GenerateOneType

SpecCtx == InitCtx /\ [][NextCtx]_vars

(***************************************************************************)
(* Claims about the context builder (checked under SpecCtx)                *)
(***************************************************************************)
RECURSIVE ReferencedCompound(_)
\* the compound type a data type refers to, directly or as array element
ReferencedCompound(t) ==
    IF t.tag = "compound" THEN {t.name_components}
    ELSE IF t.tag = "array" THEN ReferencedCompound(t.element_type)
    ELSE {}

RefsOf(fields) == UNION {ReferencedCompound(fields[k].data_type) : k \in 1..Len(fields)}

IncludePath(name_components) == type_output_filename(compiler, <<>>, name_components)

\* the fields of the type as generate_one_type reads them
IncludeFields ==
    IF compiler = "cpp" THEN in_datatype_fields(dt)
    ELSE IF dt.kind = "message" THEN dt.fields
    ELSE dt.request_fields \o dt.response_fields

HasIncludes == cpc = "done" /\ "includes" \in DOMAIN ctx

C9_ServiceIncludes ==
    (HasIncludes /\ dt.kind = "service")
    => Range(ctx.includes) =
          {IncludePath(r) : r \in RefsOf(dt.request_fields) \cup RefsOf(dt.response_fields)}

\* C10: for a Message type with n fields and m constants the context holds n
\* entries under `fields` and m under `constants`, in declaration order, each
\* with its native type and its name.
C10_MessageContext ==
    (cpc = "done" /\ dt.kind = "message" /\ ~ctx.raised)
    => /\ Len(ctx.fields) = Len(dt.fields)
       /\ Len(ctx.constants) = Len(dt.constants)
       /\ \A k \in 1..Len(dt.fields) :
             /\ DOMAIN ctx.fields[k] \cap {"cpp_type", "c_type"} # {}
             /\ dt.fields[k].name # <<>> => ctx.fields[k].name = dt.fields[k].name
       /\ \A k \in 1..Len(dt.constants) :
             /\ DOMAIN ctx.constants[k] \cap {"cpp_type", "c_type"} # {}
             /\ ctx.constants[k].name = dt.constants[k].name

\* the number of void fields among the first k fields
VoidsBefore(fields, k) ==
    Cardinality({j \in 1..k : fields[j].data_type.tag = "void"})

\* the name C11 expects of the k-th entry of an attribute list
ExpectedName(fields, k) ==
    IF fields[k].data_type.tag = "void" THEN VoidName(VoidsBefore(fields, k - 1))
    ELSE fields[k].name

\* C11: in the context of the cpp package the void fields of an attribute
\* list are named _void_0 .. _void_{k-1} in declaration order (counted from 0
\* in each list) and every other field keeps its own name.
C11_VoidNames ==
    (cpc = "done" /\ compiler = "cpp" /\ dt.kind = "message" /\ ~ctx.raised)
    => /\ Len(ctx.fields) = Len(dt.fields)
       /\ \A k \in 1..Len(dt.fields) :
             ctx.fields[k].name = ExpectedName(dt.fields, k)

\* the constants of the definition under generation
ConstantsOf(t) ==
    Range(t.constants) \cup Range(t.request_constants) \cup Range(t.response_constants)

\* the literal parses as a literal of the constant's declared kind
ValidLiteral(c) ==
    IF c.data_type.kind = "float" THEN IsFloatLiteral(c.string_value)
    ELSE IsIntLiteral(c.string_value)

\* C12: when a constant of the type has a string value that is not a literal
\* of its declared kind, generate_one_type raises before it calls the
\* template expander (so that no text of the type exists to be written).
C12_InvalidLiteralFails ==
    (cpc = "done" /\ \E c \in ConstantsOf(dt) : ~ValidLiteral(c)) => ctx.raised

\* the native literal of a constant's entry in the context
NativeLiteral(entry) ==
    IF "cpp_value" \in DOMAIN entry THEN entry.cpp_value ELSE entry.c_value

\* the literal C13 expects for the constant c
ExpectedLiteral(c) ==
    IF c.data_type.kind = "uint" THEN c.string_value \o <<"U">> ELSE c.string_value

\* the entries of `out` are the native literals of the constants `decl`
LiteralsOf(decl, out) ==
    /\ Len(out) = Len(decl)
    /\ \A k \in 1..Len(decl) : NativeLiteral(out[k]) = ExpectedLiteral(decl[k])

\* C13: the native literal of every valid constant in the context is the
\* string value followed by 'U' when the constant's type is an unsigned
\* integer, and the string value itself for signed-integer and float constants.
C13_NativeLiteral ==
    (cpc = "done" /\ ~ctx.raised /\ \A c \in ConstantsOf(dt) : ValidLiteral(c))
    => /\ LiteralsOf(dt.constants, ctx.constants)
       /\ LiteralsOf(dt.request_constants, ctx.request_constants)
       /\ LiteralsOf(dt.response_constants, ctx.response_constants)

\* C14: for a Message type the `union` flag of the context (cpp package) is
\* true exactly when the type is tagged as a union and has at least one field.
C14_UnionFlag ==
    (cpc = "done" /\ compiler = "cpp" /\ dt.kind = "message" /\ ~ctx.raised)
    => (ctx.union <=> (dt.union /\ Len(dt.fields) >= 1))

\* the entries of `out` are the attributes `decl`, in order
EntriesOf(decl, out) ==
    /\ Len(out) = Len(decl)
    /\ \A k \in 1..Len(decl) : out[k].name = decl[k].name

\* C15: for a Service type (with valid constants) generate_one_type succeeds;
\* the request fields and constants of the context are those of the request
\* definition, the response fields and constants those of the response
\* definition, and the request and response constants are not one shared list.
C15_ServiceContext ==
    (cpc = "done" /\ dt.kind = "service" /\ \A c \in ConstantsOf(dt) : ValidLiteral(c))
    => /\ ~ctx.raised
       /\ EntriesOf(dt.request_fields, ctx.request_fields)
       /\ EntriesOf(dt.request_constants, ctx.request_constants)
       /\ EntriesOf(dt.response_fields, ctx.response_fields)
       /\ EntriesOf(dt.response_constants, ctx.response_constants)
       /\ ctx.objects.request_constants # ctx.objects.response_constants

(***************************************************************************)
(* SpecType: the type resolver applied to bounded types.  A type is a      *)
(* chain of array layers that ends in a type that is no array, or in a     *)
(* reference back to one of its own layers (a cyclic chain of element      *)
(* types).                                                                 *)
(***************************************************************************)
\* what the parser defines, and one value it does not
PrimitiveKinds == {"bool", "uint", "int", "float", "other"}
CastModes == {"saturated", "truncated", "other"}
ArrayModes == {"static", "dynamic", "other"}
BitLengths == {1, 8}

\* the types that are no arrays; [tag |-> "other"] is a type of a tag the
\* resolver does not know
LeafTypes ==
    {Primitive(k, b, m) : k \in PrimitiveKinds, b \in BitLengths, m \in CastModes}
    \cup {VoidType(b) : b \in BitLengths}
    \cup {CompoundRef(TypeA), CompoundRef(TypeB)}
    \cup {[tag |-> "other"]}

ArrayLayers == {[mode |-> m, size |-> 2] : m \in ArrayModes}

\* the element of the innermost layer refers back to layer `to`
BackRef(to) == [tag |-> "ref", to |-> to]

IsChain(t, layers, leaf) ==
    /\ leaf.tag = "ref" => leaf.to \in 1..Len(layers)
    /\ t = [layers |-> layers, leaf |-> leaf]

IsCyclic(t) == t.leaf.tag = "ref"

RECURSIVE UnfoldFrom(_, _)
\* the type of layer k of an acyclic chain, as the resolver's argument
UnfoldFrom(t, k) ==
    IF k > Len(t.layers) THEN t.leaf
    ELSE ArrayType(t.layers[k].mode, UnfoldFrom(t, k + 1), t.layers[k].size)

Unfold(t) == UnfoldFrom(t, 1)

\* the attribute name and the function name type_to_c_type is called with
ANameOfField == <<"a">>
FNameOfType == StrReplace(full_name(TypeT), ".", <<"_">>)

\* the resolver of the package
resolve(c, t) ==
    IF c = "cpp" THEN type_to_cpp_type(t) ELSE type_to_c_type(t, ANameOfField, FNameOfType)

InitType ==
    /\ PipeIdle /\ CtxIdle /\ FnIdle
    /\ compiler \in Compilers
    /\ \E n \in 0..MaxDepth :
          \E layers \in [1..n -> ArrayLayers],
             leaf \in LeafTypes \cup {BackRef(j) : j \in 1..n} :
             IsChain(rt, layers, leaf)
    /\ at = 1
    /\ wrapped = FALSE
    /\ native = <<>>
    /\ rpc = "call"

\* value_type = type_to_cpp_type(t.element_type): the call for the element of
\* layer `at`, made before the array's own mode is looked at
Recurse ==
    /\ rpc = "call"
    /\ at <= Len(rt.layers)
    /\ IF at = Len(rt.layers) /\ IsCyclic(rt)
       THEN at' = rt.leaf.to /\ wrapped' = TRUE
       ELSE at' = at + 1 /\ UNCHANGED wrapped
    /\ UNCHANGED <<pipeVars, ctxVars, fnVars, rt, native, rpc>>

\* the innermost call is for a type that is no array: it returns or raises,
\* and so do the calls for the layers around it
Return ==
    /\ rpc = "call"
    /\ at = Len(rt.layers) + 1
    /\ native' = resolve(compiler, Unfold(rt))
    /\ rpc' = IF native'.raised THEN "raised" ELSE "returned"
    /\ UNCHANGED <<pipeVars, ctxVars, fnVars, rt, at, wrapped>>

\* the interpreter refuses a further call: it may do so at a depth that the
\* resolver neither sets nor knows, reached only by a cyclic chain
RecursionError ==
    /\ rpc = "call"
    /\ wrapped
    /\ native' = Raise("RecursionError")
    /\ rpc' = "raised"
    /\ UNCHANGED <<pipeVars, ctxVars, fnVars, rt, at, wrapped>>

NextType == Recurse \/ Return \/ RecursionError

SpecType == InitType /\ [][NextType]_vars

\* the resolver's steps are taken as long as one is possible
SpecTypeFair == SpecType /\ WF_vars(NextType)

(***************************************************************************)
(* Claims about the type resolver                                          *)
(***************************************************************************)
Resolved == rpc \in {"returned", "raised"}

HasField(r, f, v) == f \in DOMAIN r /\ r[f] = v

\* the cast mode token of a recognised cast mode
CastModeToken(m) ==
    IF m = "saturated" THEN "::uavcan::CastModeSaturate" ELSE "::uavcan::CastModeTruncate"

\* the result is an integer spec of that signedness, bit length and cast mode
IsIntegerSpec(r, signedness, bit_length, cast_mode) ==
    /\ ~r.raised
    /\ HasField(r.value, "spec", "::uavcan::IntegerSpec")
    /\ HasField(r.value, "signedness", signedness)
    /\ HasField(r.value, "bit_length", bit_length)
    /\ HasField(r.value, "cast_mode", cast_mode)

IsFloatSpec(r, bit_length, cast_mode) ==
    /\ ~r.raised
    /\ HasField(r.value, "spec", "::uavcan::FloatSpec")
    /\ HasField(r.value, "bit_length", bit_length)
    /\ HasField(r.value, "cast_mode", cast_mode)

\* C16: a Boolean or UnsignedInt primitive resolves to an unsigned integer
\* spec, a SignedInt to a signed integer spec, a Float to a floating-point
\* spec, each with the type's own bit length and cast mode; a Void type
\* resolves to an unsigned integer spec of its bit length.
C16_PrimitiveSpecs ==
    (Resolved /\ rt.layers = <<>>)
    => LET t == rt.leaf
       IN  /\ (t.tag = "primitive" /\ t.cast_mode \in {"saturated", "truncated"})
              => /\ t.kind \in {"bool", "uint"}
                    => IsIntegerSpec(native, "::uavcan::SignednessUnsigned",
                                     t.bit_length, CastModeToken(t.cast_mode))
                 /\ t.kind = "int"
                    => IsIntegerSpec(native, "::uavcan::SignednessSigned",
                                     t.bit_length, CastModeToken(t.cast_mode))
                 /\ t.kind = "float"
                    => IsFloatSpec(native, t.bit_length, CastModeToken(t.cast_mode))
           /\ t.tag = "void"
              => IsIntegerSpec(native, "::uavcan::SignednessUnsigned", t.bit_length,
                               "::uavcan::CastModeSaturate")

RECURSIVE Unrecognised(_)
\* the type, or a type it is an array of, is one the resolver must refuse
Unrecognised(t) ==
    IF t.tag = "primitive"
    THEN t.cast_mode \notin {"saturated", "truncated"}
         \/ t.kind \notin {"bool", "uint", "int", "float"}
    ELSE IF t.tag = "array"
    THEN t.mode \notin {"static", "dynamic"} \/ Unrecognised(t.element_type)
    ELSE t.tag \notin {"compound", "void"}

\* C17: the resolver raises for a primitive of an unknown cast mode, an array
\* that is neither static nor dynamic and a type of an unknown tag, also when
\* such a type is the element of an array.
C17_UnrecognisedFails ==
    (Resolved /\ ~IsCyclic(rt) /\ Unrecognised(Unfold(rt))) => native.raised

LowerCase == <<"a", "b", "c", "d", "e", "f", "g", "h", "i", "j", "k", "l", "m",
               "n", "o", "p", "q", "r", "s", "t", "u", "v", "w", "x", "y", "z">>
UpperCase == <<"A", "B", "C", "D", "E", "F", "G", "H", "I", "J", "K", "L", "M",
               "N", "O", "P", "Q", "R", "S", "T", "U", "V", "W", "X", "Y", "Z">>

\* s.upper()
upper(s) ==
    [k \in 1..Len(s) |->
        IF \E j \in 1..Len(LowerCase) : LowerCase[j] = s[k]
        THEN UpperCase[CHOOSE j \in 1..Len(LowerCase) : LowerCase[j] = s[k]]
        ELSE s[k]]

\* in_datatype.full_name.replace('.', '_').upper() + '_HPP_INCLUDED'
include_guard(name_components) ==
    upper(StrReplace(full_name(name_components), ".", <<"_">>))
    \o <<"_", "H", "P", "P", "_", "I", "N", "C", "L", "U", "D", "E", "D">>

\* identifiers a namespace or a type may be named by
Identifiers == { <<"a">>, <<"A">>, <<"a", "_", "a">> }

\* full names: one or more namespaces and the short name
NameComponents == UNION {[1..n -> Identifiers] : n \in 2..MaxComponents}

InitNames ==
    /\ PipeIdle /\ CtxIdle /\ TypeIdle
    /\ compiler \in Compilers
    /\ \E a, b \in NameComponents :
          /\ full_name(a) # full_name(b)
          /\ arg = <<a, b>>
    /\ res = <<>>
    /\ fpc = "ready"

\* what run_generator and generate_one_type derive from the names of the two
\* types: the file each is written to and (cpp) the guard of its header
DeriveNames ==
    /\ fpc = "ready"
    /\ res' = [filename |-> [k \in 1..2 |-> type_output_filename(compiler, dest_dir, arg[k])],
               include_guard |-> [k \in 1..2 |->
                                     IF compiler = "cpp" THEN include_guard(arg[k])
                                     ELSE None]]
    /\ fpc' = "done"
    /\ UNCHANGED <<pipeVars, ctxVars, typeVars, arg>>

NextNames == DeriveNames

SpecNames == InitNames /\ [][NextNames]_vars

\* C19: two types of one run with distinct full names have distinct output
\* paths, and (cpp) distinct include guards.
C19_DistinctPathsAndGuards ==
    fpc = "done"
    => /\ res.filename[1] # res.filename[2]
       /\ compiler = "cpp" => res.include_guard[1] # res.include_guard[2]

(***************************************************************************)
(* make_template_expander: the regular-expression substitutions that turn  *)
(* the template text into pyratemp syntax.  Each re.sub is an operator     *)
(* that scans the text from left to right as the regex engine does.        *)
(***************************************************************************)
\* the number of characters from position p on that are in S / not in S
RunOf(t, p, S) ==
    Cardinality({e \in p..Len(t) : \A k \in p..e : t[k] \in S})
RunNotOf(t, p, S) ==
    Cardinality({e \in p..Len(t) : \A k \in p..e : t[k] \notin S})

\* the text has the literal lit at position p
StartsWith(t, p, lit) ==
    /\ p + Len(lit) - 1 <= Len(t)
    /\ \A k \in 1..Len(lit) : t[p + k - 1] = lit[k]

MarkerOpen == <<"<", "!", "-", "-", "(">>
MarkerClose == <<")", "-", "-", ">">>

RECURSIVE backslash_newline_from(_, _)
\* re.sub(r'\\\r{0,1}\n\ *', r' ', template_text)
backslash_newline_from(t, p) ==
    IF p > Len(t) THEN <<>>
    ELSE LET q == IF p + 1 <= Len(t) /\ t[p + 1] = "\r" THEN p + 2 ELSE p + 1
         IN  IF t[p] = "\\" /\ q <= Len(t) /\ t[q] = "\n"
             THEN <<" ">> \o backslash_newline_from(t, q + 1 + RunOf(t, q + 1, {" "}))
             ELSE <<t[p]>> \o backslash_newline_from(t, p + 1)

backslash_newline(t) == backslash_newline_from(t, 1)

\* \$\{([^\}]+)\} matches at position d
SubstitutionAt(t, d) ==
    /\ StartsWith(t, d, <<"$", "{">>)
    /\ RunNotOf(t, d + 2, {"}"}) >= 1
    /\ d + 2 + RunNotOf(t, d + 2, {"}"}) <= Len(t)

RECURSIVE substitution_syntax_from(_, _)
\* re.sub(r'([^\$]{0,1})\$\{([^\}]+)\}', r'\1$!\2!$', template_text): the
\* optional first character is tried first, and then left out
substitution_syntax_from(t, p) ==
    IF p > Len(t) THEN <<>>
    ELSE LET g == IF t[p] # "$" /\ SubstitutionAt(t, p + 1) THEN 1 ELSE 0
             d == p + g
         IN  IF SubstitutionAt(t, d)
             THEN LET n == RunNotOf(t, d + 2, {"}"})
                  IN  SubSeq(t, p, d - 1) \o <<"$", "!">> \o SubSeq(t, d + 2, d + 1 + n)
                      \o <<"!", "$">> \o substitution_syntax_from(t, d + 3 + n)
             ELSE <<t[p]>> \o substitution_syntax_from(t, p + 1)

substitution_syntax(t) == substitution_syntax_from(t, 1)

\* ^ and $ under (?m)
AtLineStart(t, p) == p = 1 \/ t[p - 1] = "\n"
AtLineEnd(t, p) == p > Len(t) \/ t[p] = "\n"

\* the characters the second group of the flow-control pattern cannot hold:
\* `.` (cpp) is any character but a newline, [^\:] (minimalc) any but ':'
FlowGroupExcludes(c) == IF c = "cpp" THEN {"\n"} ELSE {":"}

\* the positions e at which a second group that starts at g can end
\* (lazily: the least of them), :{0,1}$ matching behind it
FlowGroupEnds(c, t, g) ==
    {e \in g..Len(t) :
        /\ \A k \in g..e : t[k] \notin FlowGroupExcludes(c)
        /\ \/ AtLineEnd(t, e + 1)
           \/ e + 1 <= Len(t) /\ t[e + 1] = ":" /\ AtLineEnd(t, e + 2)}

SetMax(S) == CHOOSE x \in S : \A y \in S : y <= x
SetMin(S) == CHOOSE x \in S : \A y \in S : x <= y

RECURSIVE flow_control_from(_, _, _)
\* cpp:      re.sub(r'(?m)^(\ *)\%\ *(.+?):{0,1}$', r'\1<!--(\2)-->', template_text)
\* minimalc: re.sub(r'(?m)^(\ *)\%\ *([^\:]+?):{0,1}$', r'\1<!--(\2)-->', template_text)
flow_control_from(c, t, p) ==
    IF p > Len(t) THEN <<>>
    ELSE LET s == RunOf(t, p, {" "})
             q == p + s + 1
             m == RunOf(t, q, {" "})
             \* \ * takes as many blanks as leave a match possible
             js == {j \in 0..m : FlowGroupEnds(c, t, q + j) # {}}
         IN  IF AtLineStart(t, p) /\ p + s <= Len(t) /\ t[p + s] = "%" /\ js # {}
             THEN LET g == q + SetMax(js)
                      e == SetMin(FlowGroupEnds(c, t, g))
                      end == IF AtLineEnd(t, e + 1) THEN e ELSE e + 1
                  IN  SubSeq(t, p, p + s - 1) \o MarkerOpen \o SubSeq(t, g, e)
                      \o MarkerClose \o flow_control_from(c, t, end + 1)
             ELSE <<t[p]>> \o flow_control_from(c, t, p + 1)

flow_control(c, t) == flow_control_from(c, t, 1)

BlockEnd == <<"<", "!", "-", "-", "(", "e", "n", "d">>

RECURSIVE block_termination_from(_, _)
\* re.sub(r'\<\!--\(end[a-z]+\)--\>', r'<!--(end)-->', template_text)
block_termination_from(t, p) ==
    IF p > Len(t) THEN <<>>
    ELSE LET n == RunOf(t, p + Len(BlockEnd), Range(LowerCase))
         IN  IF /\ StartsWith(t, p, BlockEnd)
                /\ n >= 1
                /\ StartsWith(t, p + Len(BlockEnd) + n, MarkerClose)
             THEN BlockEnd \o MarkerClose
                  \o block_termination_from(t, p + Len(BlockEnd) + n + Len(MarkerClose))
             ELSE <<t[p]>> \o block_termination_from(t, p + 1)

block_termination(t) == block_termination_from(t, 1)

RECURSIVE trailing_comments_from(_, _)
\* re.sub(r'\ *\#\!.*', '', template_text)
trailing_comments_from(t, p) ==
    IF p > Len(t) THEN <<>>
    ELSE LET s == RunOf(t, p, {" "})
         IN  IF StartsWith(t, p + s, <<"#", "!">>)
             THEN trailing_comments_from(t, p + s + 2 + RunNotOf(t, p + s + 2, {"\n"}))
             ELSE <<t[p]>> \o trailing_comments_from(t, p + 1)

trailing_comments(t) == trailing_comments_from(t, 1)

MacroOpen == <<"<", "!", "-", "-", "(", "m", "a", "c", "r", "o", " ">>
MacroNameChars == Range(LowerCase) \cup Range(UpperCase) \cup Range(DecimalDigits) \cup {"_"}

RECURSIVE macro_newline_from(_, _)
\* re.sub(r'(\<\!--\(macro\ [a-zA-Z0-9_]+\)--\>.*?)', r'\1\n', template_text)
macro_newline_from(t, p) ==
    IF p > Len(t) THEN <<>>
    ELSE LET n == RunOf(t, p + Len(MacroOpen), MacroNameChars)
             end == p + Len(MacroOpen) + n + Len(MarkerClose)
         IN  IF /\ StartsWith(t, p, MacroOpen)
                /\ n >= 1
                /\ StartsWith(t, p + Len(MacroOpen) + n, MarkerClose)
             THEN SubSeq(t, p, end - 1) \o <<"\n">> \o macro_newline_from(t, end)
             ELSE <<t[p]>> \o macro_newline_from(t, p + 1)

macro_newline(t) == macro_newline_from(t, 1)

\* the text make_template_expander hands to pyratemp's Template
template_text(c, t) ==
    macro_newline(trailing_comments(block_termination(
        flow_control(c, substitution_syntax(backslash_newline(t))))))

(***************************************************************************)
(* SpecTmpl: make_template_expander applied to bounded template texts      *)
(***************************************************************************)
\* what follows the '%' of a flow-control line: keyword and arguments
FlowBodies ==
    { <<"f", "o", "r", " ", "a">>,
      <<"i", "f", " ", "a", "[", ":", "1", "]">>,
      <<"e", "n", "d", "f", "o", "r">>,
      <<"e", "n", "d", "i", "f">>,
      <<"e", "n", "d">> }

\* the lines of a template: flow-control lines (indentation, '%', blanks,
\* body, optional ':') and a line of plain text
TemplateLines ==
    {[flow |-> TRUE, indent |-> n, blanks |-> b, body |-> body, colon |-> colon] :
        n \in 0..MaxIndent, b \in 0..1, body \in FlowBodies, colon \in BOOLEAN}
    \cup {[flow |-> FALSE, body |-> <<"a">>]}

\* templates of one line and of two
Templates == {<<l>> : l \in TemplateLines} \cup (TemplateLines \X TemplateLines)

Blanks(n) == [k \in 1..n |-> " "]

\* the text of a line, and of a template as read from the file
LineText(l) ==
    IF l.flow
    THEN Blanks(l.indent) \o <<"%">> \o Blanks(l.blanks) \o l.body
         \o (IF l.colon THEN <<":">> ELSE <<>>)
    ELSE l.body

FileText(lines) == StrJoin(<<"\n">>, [k \in 1..Len(lines) |-> LineText(lines[k])])

InitTmpl ==
    /\ PipeIdle /\ CtxIdle /\ TypeIdle
    /\ compiler \in Compilers
    /\ arg \in Templates
    /\ res = <<>>
    /\ fpc = "ready"

\* make_template_expander(filename) up to the construction of the Template
MakeTemplateExpander ==
    /\ fpc = "ready"
    /\ res' = template_text(compiler, FileText(arg))
    /\ fpc' = "done"
    /\ UNCHANGED <<pipeVars, ctxVars, typeVars, arg>>

NextTmpl == MakeTemplateExpander

SpecTmpl == InitTmpl /\ [][NextTmpl]_vars

\* the body names a block end: 'end' followed by lower-case letters
IsBlockEnd(body) ==
    /\ StartsWith(body, 1, <<"e", "n", "d">>)
    /\ \A k \in 4..Len(body) : body[k] \in Range(LowerCase)

\* what C20 expects a line to become
ExpectedLine(l) ==
    IF l.flow
    THEN Blanks(l.indent) \o MarkerOpen
         \o (IF IsBlockEnd(l.body) THEN <<"e", "n", "d">> ELSE l.body) \o MarkerClose
    ELSE l.body

\* C20: every line <indentation>% <keyword and arguments>, with or without a
\* trailing ':', becomes <indentation><!--(<keyword and arguments>)-->, the
\* indentation and the arguments unchanged (also when the arguments contain
\* ':'), and every block-end marker becomes <!--(end)-->.
C20_FlowControlLines ==
    fpc = "done"
    => res = StrJoin(<<"\n">>, [k \in 1..Len(arg) |-> ExpectedLine(arg[k])])

(***************************************************************************)
(* SpecText: make_template_expander applied to template texts made of      *)
(* pieces of primitive (pyratemp) syntax and of substitution shorthand     *)
(***************************************************************************)
MacroMarker == MacroOpen \o <<"f">> \o MarkerClose
EndMarker == BlockEnd \o MarkerClose
ForMarker == MarkerOpen \o <<"f", "o", "r", " ", "a">> \o MarkerClose
PrimitiveSubstitution == <<"$", "!", "a", "!", "$">>
Shorthand == <<"$", "{", "a", "}">>
EscapedShorthand == <<"$", "$", "{", "a", "}">>

\* pieces that are primitive syntax already
PrimitivePieces ==
    {MacroMarker, EndMarker, ForMarker, PrimitiveSubstitution, <<"a">>, <<"\n">>}

TextPieces == PrimitivePieces \cup {Shorthand, EscapedShorthand}

RECURSIVE Concat(_)
\* ''.join(parts)
Concat(parts) == IF parts = <<>> THEN <<>> ELSE Head(parts) \o Concat(Tail(parts))

InitText ==
    /\ PipeIdle /\ CtxIdle /\ TypeIdle
    /\ compiler \in Compilers
    /\ \E n \in 1..MaxPieces : arg \in [1..n -> TextPieces]
    /\ res = <<>>
    /\ fpc = "ready"

\* the substitutions of make_template_expander applied to the text read
PreprocessText ==
    /\ fpc = "ready"
    /\ res' = template_text(compiler, Concat(arg))
    /\ fpc' = "done"
    /\ UNCHANGED <<pipeVars, ctxVars, typeVars, arg>>

NextText == PreprocessText

SpecText == InitText /\ [][NextText]_vars

\* C21: the six substitutions applied to a text that is in primitive syntax
\* already (macro declarations included, followed by a newline or not)
\* return the text unchanged.
C21_PreprocessorIdempotent ==
    (fpc = "done" /\ Range(arg) \subseteq PrimitivePieces) => res = Concat(arg)

\* what C22 expects of a piece: only the unescaped shorthand is rewritten
ExpectedPiece(piece) == IF piece = Shorthand THEN PrimitiveSubstitution ELSE piece

\* C22: ${expr} is rewritten to $!expr!$, and the escaped $${expr} is left
\* unchanged wherever it stands: at the start of the text, after plain text
\* and directly after a substitution.
C22_EscapedShorthandKept ==
    (fpc = "done" /\ Range(arg) \subseteq {Shorthand, EscapedShorthand, <<"a">>, <<"\n">>})
    => res = Concat([k \in 1..Len(arg) |-> ExpectedPiece(arg[k])])

(***************************************************************************)
(* SpecEnum: the generator enum_last_value(iterable, start) of the cpp     *)
(* package, consumed to its end.  res is the generator's frame: the items  *)
(* taken from the iterator (it), count, last, and what was yielded.        *)
(***************************************************************************)
Items == {"x", "y"}
StartValues == {-1, 0, 2}

\* mutation of count_after_yield: the count is not advanced
count_not_advanced(count) == count

\* count += 1
count_after_yield(count) == count + 1

InitEnum ==
    /\ PipeIdle /\ CtxIdle /\ TypeIdle
    /\ compiler = "cpp"
    /\ \E n \in 0..MaxItems, start \in StartValues :
          \E iterable \in [1..n -> Items] : arg = [iterable |-> iterable, start |-> start]
    /\ res = [it |-> 0, count |-> 0, last |-> "", yielded |-> <<>>]
    /\ fpc = "called"

\* it = iter(iterable); count = start; last = next(it), or return when the
\* iterable is empty
EnumFirst ==
    /\ fpc = "called"
    /\ IF Len(arg.iterable) = 0
       THEN /\ res' = [res EXCEPT !.count = arg.start]
            /\ fpc' = "returned"
       ELSE /\ res' = [res EXCEPT !.count = arg.start, !.it = 1,
                                  !.last = arg.iterable[1]]
            /\ fpc' = "loop"
    /\ UNCHANGED <<pipeVars, ctxVars, typeVars, arg>>

\* for val in it: yield count, False, last; last = val; count += 1
EnumYield ==
    /\ fpc = "loop"
    /\ res.it < Len(arg.iterable)
    /\ res' = [it |-> res.it + 1,
               count |-> count_after_yield(res.count),
               last |-> arg.iterable[res.it + 1],
               yielded |-> Append(res.yielded, <<res.count, FALSE, res.last>>)]
    /\ UNCHANGED <<pipeVars, ctxVars, typeVars, arg, fpc>>

\* the iterator is exhausted: yield count, True, last
EnumYieldLast ==
    /\ fpc = "loop"
    /\ res.it = Len(arg.iterable)
    /\ res' = [res EXCEPT !.yielded = Append(@, <<res.count, TRUE, res.last>>)]
    /\ fpc' = "returned"
    /\ UNCHANGED <<pipeVars, ctxVars, typeVars, arg>>

NextEnum == EnumFirst \/ EnumYield \/ EnumYieldLast

SpecEnum == InitEnum /\ [][NextEnum]_vars

\* C23: for a sequence of n items and a start value, enum_last_value yields
\* n triples (index, isLast, item): the items in input order, the indices
\* start .. start+n-1, isLast true on the final triple only; nothing for an
\* empty sequence.  Before its end it has yielded a prefix of these.
C23_EnumLastValue ==
    fpc \in {"loop", "returned"}
    => LET n == Len(arg.iterable)
           triples == [k \in 1..n |-> <<arg.start + k - 1, k = n, arg.iterable[k]>>]
       IN  /\ Len(res.yielded) <= n
           /\ \A k \in 1..Len(res.yielded) : res.yielded[k] = triples[k]
           /\ fpc = "returned" => res.yielded = triples

\* C23 witness: three items from start -1, all yielded
C23_Witness ==
    /\ fpc = "returned"
    /\ arg.start = -1
    /\ arg.iterable = <<"x", "y", "x">>
    /\ res.yielded = << <<-1, FALSE, "x">>, <<0, FALSE, "y">>, <<1, TRUE, "x">> >>

(***************************************************************************)
(* SpecNorm: the normalisation generate_one_type applies to the text the   *)
(* template expander returned                                              *)
(***************************************************************************)
Whitespace == {" ", "\t", "\r"}

RECURSIVE splitlines(_)
\* text.splitlines() of a text whose line ends are '\n'
splitlines(t) ==
    IF t = <<>> THEN <<>>
    ELSE LET n == RunNotOf(t, 1, {"\n"})
         IN  <<SubSeq(t, 1, n)>>
             \o splitlines(IF n < Len(t) THEN SubSeq(t, n + 2, Len(t)) ELSE <<>>)

\* x.rstrip()
rstrip(x) ==
    SubSeq(x, 1, SetMax({e \in 0..Len(x) : \A k \in (e + 1)..Len(x) : x[k] \in Whitespace}
                        \cap {e \in 0..Len(x) : e = 0 \/ x[e] \notin Whitespace}))

RECURSIVE str_replace_from(_, _, _, _)
\* s.replace(old, new): the occurrences of old from left to right, none
\* overlapping another, in one pass
str_replace_from(t, p, old, new) ==
    IF p > Len(t) THEN <<>>
    ELSE IF StartsWith(t, p, old)
    THEN new \o str_replace_from(t, p + Len(old), old, new)
    ELSE <<t[p]>> \o str_replace_from(t, p + 1, old, new)

str_replace(t, old, new) == str_replace_from(t, 1, old, new)

Newlines(n) == [k \in 1..n |-> "\n"]

\* the four statements after the expansion
normalize(text) ==
    LET lines == splitlines(text)
        joined == StrJoin(<<"\n">>, [k \in 1..Len(lines) |-> rstrip(lines[k])])
        collapsed == str_replace(str_replace(str_replace(joined,
                         Newlines(5), Newlines(2)), Newlines(4), Newlines(2)),
                         Newlines(3), Newlines(2))
    IN  str_replace(collapsed, <<"{", "\n", "\n", " ">>, <<"{", "\n", " ">>)

\* the expanded text: a line, a run of blank lines (empty, or holding a
\* blank), a last line
ExpandedText(first, blank, k, final) ==
    first \o <<"\n">> \o Concat([j \in 1..k |-> blank \o <<"\n">>]) \o final

InitNorm ==
    /\ PipeIdle /\ CtxIdle /\ TypeIdle
    /\ compiler \in Compilers
    /\ \E first \in {<<"a">>, <<"a", " ">>, <<"{">>}, blank \in {<<>>, <<" ">>},
          k \in 0..MaxBlankLines, final \in {<<"a">>, <<" ", "a", "\t">>} :
          arg = [first |-> first, blank |-> blank, k |-> k, last |-> final]
    /\ res = <<>>
    /\ fpc = "expanded"

\* text = '\n'.join(..rstrip()..); text = text.replace(..); return text
Normalize ==
    /\ fpc = "expanded"
    /\ res' = normalize(ExpandedText(arg.first, arg.blank, arg.k, arg.last))
    /\ fpc' = "done"
    /\ UNCHANGED <<pipeVars, ctxVars, typeVars, arg>>

NextNorm == Normalize

SpecNorm == InitNorm /\ [][NextNorm]_vars

\* no line of the text ends in whitespace
NoTrailingWhitespace(t) ==
    \A k \in 1..Len(splitlines(t)) :
        LET x == splitlines(t)[k] IN x = <<>> \/ x[Len(x)] \notin Whitespace

\* the number of blank lines between the first and the last line of the text
BlankLinesIn(t) == Cardinality({k \in 1..Len(splitlines(t)) : splitlines(t)[k] = <<>>})

\* an opening brace directly followed by blank lines and an indented line
\* loses its one remaining blank line as well
BraceCase == arg.first = <<"{">> /\ Head(arg.last) = " "

\* C24: after normalisation no line has trailing whitespace, and a run of 3
\* or more blank lines of the expanded text, of whatever length, has become
\* exactly one blank line (none after an opening brace before an indented
\* line).
C24_Normalized ==
    fpc = "done"
    => /\ NoTrailingWhitespace(res)
       /\ arg.k >= 3 => BlankLinesIn(res) = IF BraceCase THEN 0 ELSE 1

(***************************************************************************)
(* Two generator processes writing distinct types into one output tree     *)
(***************************************************************************)
Workers == {1, 2}

\* the interpreters the packages support: os.makedirs takes exist_ok from 3.2
Pythons == {"3", "2.7"}

Root == <<"/">>

\* os.path.exists(path) for a directory
path_exists(ds, path) == path = Root \/ path \in ds

\* mutation of makedirs_swallows: no error is dropped
makedirs_swallows_nothing(errno) == FALSE

\* the except clause of makedirs: an OSError is dropped when it is "File exists"
makedirs_swallows(errno) == errno = "EEXIST"

\* what os.makedirs does itself with an error of mkdir(name): "File exists" of
\* a parent directory is passed over, and with exist_ok=True that of the last
\* directory too; os.makedirs(path) of 2.7 raises it
os_makedirs_ignores(python, name, target, errno) ==
    errno = "EEXIST" /\ (name # target \/ python = "3")

\* the result of mkdir(name): denied names the directory the operating system
\* refuses to create
mkdir_errno(ds, name, denied) ==
    IF name \in ds THEN "EEXIST" ELSE IF name = denied THEN "EACCES" ELSE "none"

\* the file a worker writes, and the directories it calls makedirs on:
\* dest_dir in run_generator, the file's directory in write_generated_data
WorkerFile(c, t) == type_output_filename(c, dest_dir, t)
MakedirsCalls(c, t) == <<dest_dir, os_path_dirname(WorkerFile(c, t))>>

\* the directory os.makedirs creates after name on the way to target
NextDir(name, target) ==
    CHOOSE d \in DirChain(target) : os_path_dirname(d) = name

TypePairs == {<<t1, t2>> \in TypeNames \X TypeNames : t1 # t2}

Started(c, t) ==
    [call |-> 1, name |-> MakedirsCalls(c, t)[1], phase |-> "probe",
     eexist |-> FALSE, errno |-> "none"]

InitWorkers ==
    /\ PipeIdle /\ CtxIdle /\ TypeIdle
    /\ compiler \in Compilers
    /\ \E python \in Pythons, pair \in TypePairs,
          denied \in {<<>>} \cup UNION {DirChain(os_path_dirname(p)) : p \in Paths} :
          arg = [python |-> python, types |-> pair, denied |-> denied]
    /\ res = [w \in Workers |-> Started(compiler, arg.types[w])]
    /\ fpc = "running"

WorkerFrame ==
    UNCHANGED <<compiler, dry_run, types, template_ok, render, pc, i, exc, entered,
                expander, tmplLoads, started, written, failedAt, stdout, fsops,
                last, runs, ctxVars, typeVars, arg, fpc>>

Target(w) == MakedirsCalls(compiler, arg.types[w])[res[w].call]

\* os.makedirs: if head and tail and not path.exists(head): makedirs(head)
Probe(w) ==
    /\ fpc = "running" /\ res[w].phase = "probe"
    /\ LET head == os_path_dirname(res[w].name)
       IN  IF ~path_exists(dirs, head)
           THEN res' = [res EXCEPT ![w].name = head]
           ELSE res' = [res EXCEPT ![w].phase = "make"]
    /\ UNCHANGED <<dirs, files>>
    /\ WorkerFrame

\* os.makedirs: mkdir(name), and what the except clauses do with its error
Mkdir(w) ==
    /\ fpc = "running" /\ res[w].phase = "make"
    /\ LET name == res[w].name
           target == Target(w)
           errno == mkdir_errno(dirs, name, arg.denied)
           passed == errno = "none" \/ os_makedirs_ignores(arg.python, name, target, errno)
           met == res[w].eexist \/ errno = "EEXIST"
       IN  /\ dirs' = IF errno = "none" THEN dirs \cup {name} ELSE dirs
           /\ IF passed /\ name # target
              THEN res' = [res EXCEPT ![w].name = NextDir(name, target), ![w].eexist = met]
              ELSE IF passed \/ makedirs_swallows(errno)
              THEN IF res[w].call = 1
                   THEN res' = [res EXCEPT ![w].call = 2, ![w].phase = "probe",
                                   ![w].name = MakedirsCalls(compiler, arg.types[w])[2],
                                   ![w].eexist = met]
                   ELSE res' = [res EXCEPT ![w].phase = "write", ![w].eexist = met]
              ELSE res' = [res EXCEPT ![w].phase = "failed", ![w].errno = errno,
                                      ![w].eexist = met]
    /\ UNCHANGED files
    /\ WorkerFrame

\* write_generated_data after its makedirs: open(filename, 'w') needs the directory
Write(w) ==
    /\ fpc = "running" /\ res[w].phase = "write"
    /\ LET filename == WorkerFile(compiler, arg.types[w])
       IN  IF ~path_exists(dirs, os_path_dirname(filename))
           THEN /\ res' = [res EXCEPT ![w].phase = "failed", ![w].errno = "ENOENT"]
                /\ UNCHANGED files
           ELSE /\ files' = [files EXCEPT ![filename] =
                        write_generated_data(compiler, files[filename],
                                             render[arg.types[w]], "none").file]
                /\ res' = [res EXCEPT ![w].phase = "done"]
    /\ UNCHANGED dirs
    /\ WorkerFrame

WorkerStep(w) == Probe(w) \/ Mkdir(w) \/ Write(w)

NextWorkers == \E w \in Workers : WorkerStep(w)

SpecWorkers == InitWorkers /\ [][NextWorkers]_vars

Finished(w) == res[w].phase \in {"done", "failed"}

\* C25: two workers generating distinct types below shared directories: a
\* worker fails only on a directory-creation error other than "already exists";
\* when no directory is refused no worker fails, and once both have finished
\* both files are written in full
C25_WorkersComplete ==
    fpc = "running" =>
        /\ \A w \in Workers :
              res[w].phase = "failed" => res[w].errno = "EACCES" /\ arg.denied # <<>>
        /\ (arg.denied = <<>> /\ \A w \in Workers : Finished(w))
           => \A w \in Workers :
                 /\ res[w].phase = "done"
                 /\ files[WorkerFile(compiler, arg.types[w])]
                       = File(render[arg.types[w]], OUTPUT_FILE_PERMISSIONS)

\* both workers are done and one of them met a directory the other had created
C25_Witness ==
    /\ fpc = "running"
    /\ \A w \in Workers : res[w].phase = "done"
    /\ \E w \in Workers : res[w].eexist
    /\ arg.python = "2.7"

(***************************************************************************)
(* The descriptor after generate_one_type (checked under SpecCtx)          *)
(***************************************************************************)
\* the entries of a context that generate_one_type assigns on the descriptor
SetOnDescriptor(context) ==
    DOMAIN context \ {"built", "raised", "error", "objects", "full_name", "is_service"}

\* The object passed to generate_one_type, after the call. cpp fills a separate
\* PortingShim and assigns nothing on in_datatype; minimalc assigns every
\* entry of its context on t itself (t.short_name = .., a.c_type = ..,
\* c.c_value = ..) and passes t to the expander.
descriptor_after(c, t, context) ==
    IF c = "cpp" THEN t
    ELSE [x \in DOMAIN t \cup SetOnDescriptor(context) |->
             IF x \in SetOnDescriptor(context) THEN context[x] ELSE t[x]]

\* C26: after generate_one_type has returned or raised, the descriptor has
\* exactly the attributes and values it had before the call
C26_DescriptorUnchanged ==
    cpc = "done" => descriptor_after(compiler, dt, ctx) = dt

(***************************************************************************)
(* The exception run_generator raises (checked under Spec)                 *)
(***************************************************************************)
\* str(ex) of the exception a failing step raised: the interpreter's text for
\* the error, which for an OSError of a file operation ends in the path
str_ex(fault, filename) ==
    [strerror |-> fault,
     filename |-> IF fault \in {"makedirs", "read", "remove", "open"}
                  THEN filename ELSE <<>>]

\* die(ex): raise DsdlCompilerException(str(text)); the text is all it carries
DsdlCompilerException(text) == [exception |-> die, args |-> <<text>>]

\* what the caller of run_generator catches after the last failure
SurfacedError == DsdlCompilerException(str_ex(last.fault, last.filename))

Stages == {"type resolution", "literal validation", "template expansion", "write"}

\* C27: a failure while a type is generated ends the run with an error that
\* carries the type's full name and the stage that failed
C27_StructuredError ==
    (failedAt > 0 /\ last.raised) =>
        /\ pc = "failed"
        /\ exc = die
        /\ {"type", "stage"} \subseteq DOMAIN SurfacedError
        /\ SurfacedError.type = full_name(last.type)
        /\ SurfacedError.stage \in Stages

(***************************************************************************)
(* build-tools/bin/verify.py: QualifiedAction and cli                      *)
(***************************************************************************)
MaxWords == 3

\* the choices of the action argument
ActionNames == {"clean", "configure", "build", "test", "release"}

\* what is typed as the action: words joined by "-"
Words == ActionNames \cup {"only", "x"}
ActionInputs == UNION {[1..n -> Words] : n \in 1..MaxWords}

\* (?:-+(?P<suffix>\S+))? : the words left of the input, None when none is
QualifiedSuffix(words) == IF words = <<>> THEN None ELSE words

\* QualifiedAction(input): ActionPattern.match(input). The prefix group takes
\* "clean-" only when an action name follows it; without a match the name is "".
QualifiedAction(input) ==
    LET prefixed == Len(input) >= 2 /\ input[1] = "clean" /\ input[2] \in ActionNames
        matched == prefixed \/ input[1] \in ActionNames
        k == IF prefixed THEN 2 ELSE 1
        only == Len(input) > k /\ input[k + 1] = "only"
        rest == SubSeq(input, IF only THEN k + 2 ELSE k + 1, Len(input))
    IN  IF ~matched
        THEN [prefix |-> None, name |-> "", suffix |-> None, only |-> FALSE]
        ELSE [prefix |-> IF prefixed THEN "clean" ELSE None,
              name |-> input[k],
              suffix |-> QualifiedSuffix(rest),
              only |-> only]

\* QualifiedAction.__eq__ with a string: str(other) == str(self)
ActionIs(action, name) == action.name = name

\* mutation of SkipsStep: -only is ignored
SkipsNoStep(action, step) == FALSE

\* cli: `if args.action.only and args.action != step` skips the step
SkipsStep(action, step) == action.only /\ ~ActionIs(action, step)

\* the result codes of a cmake process
ReturnCodes == {0, 1, 2}

\* _cmake_run: the result, and whether cmake was launched
cmake_run(dry, build_dir_exists, returncode) ==
    IF ~build_dir_exists
    THEN [result |-> IF ~dry THEN 1 ELSE 0, launched |-> FALSE]
    ELSE IF ~dry THEN [result |-> returncode, launched |-> TRUE]
    ELSE [result |-> 0, launched |-> FALSE]

\* _cmake_clean: nothing to clean without a build directory
cmake_clean(dry, build_dir_exists, returncode) ==
    IF ~build_dir_exists THEN [result |-> 0, launched |-> FALSE]
    ELSE cmake_run(dry, build_dir_exists, returncode)

\* _create_dir_action: whether the directory exists afterwards and was made
create_dir_action(dry, exists) ==
    [exists |-> exists \/ ~dry, made |-> ~exists /\ ~dry]

InitCli ==
    /\ PipeIdle /\ CtxIdle /\ TypeIdle
    /\ compiler = "cpp"
    /\ \E input \in ActionInputs, dry \in BOOLEAN, build \in BOOLEAN, ext \in BOOLEAN :
          arg = [input |-> input, action |-> QualifiedAction(input),
                 dry_run |-> dry, build_dir |-> build, ext_dir |-> ext]
    /\ res = [steps |-> <<>>, results |-> <<>>, launched |-> <<>>, made |-> {},
              build_dir |-> arg.build_dir, ext_dir |-> arg.ext_dir, exit |-> 0]
    /\ fpc = "parse_args"

CliFrame == UNCHANGED <<pipeVars, ctxVars, typeVars, arg>>

\* a step function was called and returned result; cmake was launched or not
StepDone(r, step, run) ==
    [r EXCEPT !.steps = Append(@, step),
              !.results = Append(@, run.result),
              !.launched = IF run.launched THEN Append(@, step) ELSE @]

\* parse_args, where argparse rejects a name that is not among the choices,
\* and the banner, whose arguments call _get_version_number: git describe
ParseArgs ==
    /\ fpc = "parse_args"
    /\ IF arg.action.name \notin ActionNames
       THEN /\ fpc' = "exit"
            /\ res' = [res EXCEPT !.exit = 2]
       ELSE /\ fpc' = "clean"
            /\ res' = [res EXCEPT !.launched = Append(@, "git")]
    /\ CliFrame

\* --[CLEAN]--: the result of _cmake_clean is not looked at
CleanStep ==
    /\ fpc = "clean"
    /\ \E returncode \in ReturnCodes :
          LET cleans == ActionIs(arg.action, "clean") \/ arg.action.prefix = "clean"
              run == cmake_clean(arg.dry_run, res.build_dir, returncode)
          IN  /\ res' = IF cleans THEN StepDone(res, "clean", run) ELSE res
              /\ fpc' = IF ActionIs(arg.action, "clean") THEN "exit" ELSE "configure"
    /\ CliFrame

\* what a section of cli does after its step returned result
AfterStep(result, step, following) ==
    IF result # 0 THEN [fpc |-> "exit", exit |-> result]
    ELSE IF ActionIs(arg.action, step) THEN [fpc |-> "exit", exit |-> 0]
    ELSE [fpc |-> following, exit |-> 0]

\* --[CONFIGURE]--: both directories, then cmake
ConfigureStep ==
    /\ fpc = "configure"
    /\ IF SkipsStep(arg.action, "configure")
       THEN fpc' = "build" /\ res' = res
       ELSE \E returncode \in ReturnCodes :
            LET b == create_dir_action(arg.dry_run, res.build_dir)
                x == create_dir_action(arg.dry_run, res.ext_dir)
                run == cmake_run(arg.dry_run, b.exists, returncode)
                nx == AfterStep(run.result, "configure", "build")
                made == (IF b.made THEN {"build_dir"} ELSE {})
                        \cup (IF x.made THEN {"ext_dir"} ELSE {})
            IN  /\ res' = [StepDone(res, "configure", run) EXCEPT
                              !.build_dir = b.exists, !.ext_dir = x.exists,
                              !.made = @ \cup made, !.exit = nx.exit]
                /\ fpc' = nx.fpc
    /\ CliFrame

\* the sections of one cmake call: --[BUILD]--, --[TEST]--
CmakeStep(step, following) ==
    /\ fpc = step
    /\ IF SkipsStep(arg.action, step)
       THEN fpc' = following /\ res' = res
       ELSE \E returncode \in ReturnCodes :
            LET run == cmake_run(arg.dry_run, res.build_dir, returncode)
                nx == AfterStep(run.result, step, following)
            IN  /\ res' = [StepDone(res, step, run) EXCEPT !.exit = nx.exit]
                /\ fpc' = nx.fpc
    /\ CliFrame

BuildStep == CmakeStep("build", "test")

TestStep == CmakeStep("test", "release")

\* --[RELEASE]--: _cmake_release, and _cmake_install when that returned 0
ReleaseStep ==
    /\ fpc = "release"
    /\ IF SkipsStep(arg.action, "release")
       THEN fpc' = "exit" /\ res' = res
       ELSE \E returncode \in ReturnCodes :
            LET run == cmake_run(arg.dry_run, res.build_dir, returncode)
            IN  /\ res' = [StepDone(res, "release", run) EXCEPT !.exit = run.result]
                /\ fpc' = IF run.result # 0 THEN "exit" ELSE "install"
    /\ CliFrame

InstallStep ==
    /\ fpc = "install"
    /\ \E returncode \in ReturnCodes :
          LET run == cmake_run(arg.dry_run, res.build_dir, returncode)
          IN  /\ res' = [StepDone(res, "install", run) EXCEPT !.exit = run.result]
              /\ fpc' = "exit"
    /\ CliFrame

NextCli ==
    ParseArgs \/ CleanStep \/ ConfigureStep \/ BuildStep \/ TestStep
    \/ ReleaseStep \/ InstallStep

SpecCli == InitCli /\ [][NextCli]_vars

(***************************************************************************)
(* Claims about verify.py (checked under SpecCli)                          *)
(***************************************************************************)
\* the sequential steps of the help text
HelpSteps == <<"configure", "build", "test", "release">>

StepIndex(name) == CHOOSE k \in 1..Len(HelpSteps) : HelpSteps[k] = name

\* the steps the help text prescribes for an action
PrescribedSteps(action) ==
    (IF action.prefix = "clean" \/ action.name = "clean" THEN <<"clean">> ELSE <<>>)
    \o (IF action.name = "clean" THEN <<>>
        ELSE IF action.only THEN <<action.name>>
        ELSE SubSeq(HelpSteps, 1, StepIndex(action.name)))

\* the steps cli ran; the install target belongs to the release step
StepsRun == SelectSeq(res.steps, LAMBDA step : step # "install")

Accepted == arg.action.name \in ActionNames

AllSucceeded == \A k \in 1..Len(res.results) : res.results[k] = 0

C29_DryRunInert ==
    (arg.dry_run /\ Accepted) =>
        /\ res.made = {}
        /\ res.launched = <<>>
        /\ AllSucceeded
        /\ res.exit = 0

\* C30: a step that returned a non-zero result is the last step that ran, and
\* cli returns its result
C30_FirstFailureEnds ==
    \A k \in 1..Len(res.results) :
        res.results[k] # 0 =>
            /\ k = Len(res.results)
            /\ fpc = "exit"
            /\ res.exit = res.results[k]

====
